---------------------------- MODULE Spec2Model ----------------------------
(***************************************************************************)
(* A model of the Boggle solver of src/main.py: board construction, lookup *)
(* (lexicon) construction and the explicit-stack depth-first search of     *)
(* solve_board.                                                            *)
(*                                                                         *)
(* Python values are modelled as follows.  A string is a sequence of       *)
(* one-character strings; a cell is a pair <<row, column>>, 0-indexed as   *)
(* in the source; a list is a sequence; a set is a set; the dictionary     *)
(* found_words_paths is a function from its keys to their values.  The     *)
(* placeholder None of cur_path is NoneCell and that of cur_letters is     *)
(* NoneLetter.                                                             *)
(***************************************************************************)
EXTENDS Integers, Sequences, FiniteSets, TLC

VARIABLES
    pc,                 \* where main() is
    args,               \* the parsed command line (size, board, neighbors, wordlist)
    board,              \* main: board
    words_dict,         \* main: words_dict
    words_trunc_dict,   \* main: words_trunc_dict
    to_explore_stack,   \* solve_board: to_explore_stack
    found_words_paths,  \* solve_board: found_words_paths
    cur_path,           \* solve_board: cur_path
    cur_letters,        \* solve_board: cur_letters
    cur_word,           \* solve_board: cur_word, the last candidate formed
    neighbor_cells,     \* solve_board: neighbor_cells, the last neighbor list computed
    found_keys,         \* the keys of found_words_paths in the order the dict keeps them
    sorted_words,       \* main: sorted_words
    score,              \* print_score: the points printed
    word_points,        \* print_found_words: the points printed after each word
    steps,              \* solve_board: the steps of this call, a cell for each
                        \* cur_cells.pop(), None for each backtrack
    run,                \* which call of solve_board this is
    first_run           \* what the first call did and returned, once it is over

\* What the search leaves alone: the variables of the end of main().
tail == <<sorted_words, score, word_points>>

vars == <<pc, args, board, words_dict, words_trunc_dict, to_explore_stack,
          found_words_paths, cur_path, cur_letters, cur_word, neighbor_cells,
          found_keys, sorted_words, score, word_points, steps, run, first_run>>

---------------------------------------------------------------------------
(* Bounds of the model.                                                    *)

\* The largest --size, and the largest number of rows and row length of --board.
MaxSize == 2

\* The largest number of lines of the word list file.
MaxWords == 3

\* The longest word given to get_points, and the largest number of words
\* given to get_score, when the two are checked on their own.
MaxWordLen == 9
MaxScoreWords == 2

---------------------------------------------------------------------------
(* Python helpers.                                                         *)

NoneCell == <<>>
NoneLetter == "None"

Min(a, b) == IF a < b THEN a ELSE b

Last(s) == s[Len(s)]

Front(s) == SubSeq(s, 1, Len(s) - 1)

Range(s) == { s[i] : i \in 1..Len(s) }

\* str.lower() on one character.
LowerChar(ch) ==
    CASE ch = "A" -> "a"
      [] ch = "B" -> "b"
      [] OTHER -> ch

\* str.lower(), then list(): the row as a list of lowercase characters.
Lower(row) == [i \in 1..Len(row) |-> LowerChar(row[i])]

Whitespace == {"\n", " ", "\t"}

\* str.rstrip(): the line without its trailing whitespace.
RECURSIVE rstrip(_)
rstrip(line) ==
    IF line = <<>> THEN <<>>
    ELSE IF Last(line) \in Whitespace THEN rstrip(Front(line))
    ELSE line

\* The slice s[:i] for i >= 0.
Slice(s, i) == SubSeq(s, 1, Min(i, Len(s)))

\* ''.join(letters): the characters of the list's one-character strings.
RECURSIVE Join(_)
Join(letters) ==
    IF letters = <<>> THEN <<>>
    ELSE <<Head(letters)>> \o Join(Tail(letters))

---------------------------------------------------------------------------
(* get_letter: board[cell[0]][cell[1]].  The indices are never negative    *)
(* here; an index beyond the list raises IndexError.                       *)

IndexError(b, cell) ==
    \/ cell[1] >= Len(b)
    \/ cell[2] >= Len(b[cell[1] + 1])

get_letter_transposed(b, cell) == b[cell[2] + 1][cell[1] + 1]

get_letter(b, cell) == b[cell[1] + 1][cell[2] + 1]

---------------------------------------------------------------------------
(* get_valid_neighbors                                                     *)

OffsetsAll == << <<-1, 0>>, <<0, -1>>, <<1, 0>>, <<0, 1>>,
                 <<-1, -1>>, <<-1, 1>>, <<1, 1>>, <<1, -1>> >>

OffsetsNoDiag == << <<-1, 0>>, <<0, -1>>, <<1, 0>>, <<0, 1>> >>

Offsets(a) == IF a.neighbors = "all" THEN OffsetsAll ELSE OffsetsNoDiag

\* The for loop with its conditional append: the elements of s, from the
\* i-th on, whose flag in keep is set, in the order of s.
RECURSIVE FilterSeq(_, _, _)
FilterSeq(s, keep, i) ==
    IF i > Len(s) THEN <<>>
    ELSE IF keep[i] THEN <<s[i]>> \o FilterSeq(s, keep, i + 1)
    ELSE FilterSeq(s, keep, i + 1)

\* A plausible slip: the neighbor is only compared with the current cell.
get_valid_neighbors_revisit(a, b, path) ==
    LET cur_cell == Last(path)
        offsets == Offsets(a)
        cand == [i \in 1..Len(offsets) |->
                    <<cur_cell[1] + offsets[i][1], cur_cell[2] + offsets[i][2]>>]
        Valid(n) == /\ n[1] >= 0 /\ n[1] < Len(b)
                    /\ n[2] >= 0 /\ n[2] < Len(b)
                    /\ n # cur_cell
    IN  FilterSeq(cand, [i \in 1..Len(cand) |-> Valid(cand[i])], 1)

\* A plausible slip: the diagonal offsets are used in both modes.
get_valid_neighbors_alldiag(a, b, path) ==
    LET cur_cell == Last(path)
        offsets == OffsetsAll
        cand == [i \in 1..Len(offsets) |->
                    <<cur_cell[1] + offsets[i][1], cur_cell[2] + offsets[i][2]>>]
        Valid(n) == /\ n[1] >= 0 /\ n[1] < Len(b)
                    /\ n[2] >= 0 /\ n[2] < Len(b)
                    /\ n \notin Range(path)
    IN  FilterSeq(cand, [i \in 1..Len(cand) |-> Valid(cand[i])], 1)

get_valid_neighbors(a, b, path) ==
    LET cur_cell == Last(path)
        offsets == Offsets(a)
        cand == [i \in 1..Len(offsets) |->
                    <<cur_cell[1] + offsets[i][1], cur_cell[2] + offsets[i][2]>>]
        Valid(n) == /\ n[1] >= 0 /\ n[1] < Len(b)
                    /\ n[2] >= 0 /\ n[2] < Len(b)
                    /\ n \notin Range(path)
    IN  FilterSeq(cand, [i \in 1..Len(cand) |-> Valid(cand[i])], 1)

---------------------------------------------------------------------------
(* construct_lookup                                                        *)

num_letters(a) == a.size * a.size

\* A plausible slip: range(1, num_letters), which drops the longest prefix.
Truncations_short(word, n) == { Slice(word, i) : i \in 1..(n - 1) }

\* A plausible slip: every prefix of the word, whatever the board size.
Truncations_unbounded(word, n) == { Slice(word, i) : i \in 1..Len(word) }

\* The inner loop: cur_word[:i] for i in range(1, num_letters+1).
Truncations(word, n) == { Slice(word, i) : i \in 1..n }

words_of(lines) == { rstrip(lines[k]) : k \in 1..Len(lines) }

truncs_of(lines, n) ==
    UNION { Truncations(rstrip(lines[k]), n) : k \in 1..Len(lines) }

---------------------------------------------------------------------------
(* The inputs: the command line and the word list file.                    *)

\* The letters of the boards tried: all "a"; "a" in the first row and "b"
\* below; a checkerboard typed in capitals where it holds an "a".
Patterns == {"mono", "rows", "checker"}

InputLetter(p, r, c) ==
    CASE p = "mono" -> "a"
      [] p = "rows" -> IF r = 0 THEN "a" ELSE "b"
      [] OTHER -> IF (r + c) % 2 = 0 THEN "A" ELSE "b"

\* The row lengths of --board: 1..MaxSize rows of 1..MaxSize characters each.
Shapes == UNION { [1..k -> 1..MaxSize] : k \in 1..MaxSize }

BoardInputs ==
    { [r \in 1..Len(shape) |-> [c \in 1..shape[r] |-> InputLetter(p, r - 1, c - 1)]] :
        shape \in Shapes, p \in Patterns }

\* The lines a word list file is made of, in the file's (sorted) order.
VocabLines == << <<"\n">>,
                 <<"a", "\n">>,
                 <<"a", "b", " ", "\n">>,
                 <<"a", "b", "a", "\n">>,
                 <<"b", "a">> >>

\* The word list files: up to MaxWords of these lines, sorted, none twice.
WordLists ==
    UNION { { [i \in 1..k |-> VocabLines[idx[i]]] :
                idx \in { f \in [1..k -> 1..Len(VocabLines)] :
                            \A i \in 1..(k - 1) : f[i] < f[i + 1] } } :
            k \in 0..MaxWords }

\* args.board is <<>> when --board is not given.
ArgsSet ==
    [ size : 0..MaxSize,
      board : BoardInputs \cup {<<>>},
      neighbors : {"all", "no_diag"},
      wordlist : WordLists ]

\* The board ab/cd with the word list ab, abc, abd, ac, ba, in both modes.
ScenarioArgs ==
    [ size : {2},
      board : { << <<"a", "b">>, <<"c", "d">> >> },
      neighbors : {"all", "no_diag"},
      wordlist : { << <<"a", "b", "\n">>,
                      <<"a", "b", "c", "\n">>,
                      <<"a", "b", "d", "\n">>,
                      <<"a", "c", "\n">>,
                      <<"b", "a", "\n">> >> } ]

Init ==
    /\ pc = "construct_board"
    /\ args \in ArgsSet \cup ScenarioArgs
    /\ board = <<>>
    /\ words_dict = {}
    /\ words_trunc_dict = {}
    /\ to_explore_stack = <<>>
    /\ found_words_paths = <<>>
    /\ cur_path = <<>>
    /\ cur_letters = <<>>
    /\ cur_word = <<>>
    /\ neighbor_cells = <<>>
    /\ found_keys = <<>>
    /\ sorted_words = <<>>
    /\ score = 0
    /\ word_points = <<>>
    /\ steps = <<>>
    /\ run = 1
    /\ first_run = <<>>

---------------------------------------------------------------------------
(* construct_board                                                         *)

\* Some row is not as long as the row before it.
RowsUnequal(rows) == \E k \in 2..Len(rows) : Len(rows[k]) # Len(rows[k - 1])

\* The rows of a generated board: letters[i*board_size:(i+1)*board_size].
GeneratedBoard(n, p) ==
    [r \in 1..n |-> [c \in 1..n |-> LowerChar(InputLetter(p, r - 1, c - 1))]]

\* --board given and some row differs in length: exit(...), a SystemExit.
ConstructBoardExit ==
    /\ pc = "construct_board"
    /\ args.board # <<>>
    /\ RowsUnequal(args.board)
    /\ pc' = "exit"
    /\ UNCHANGED <<found_keys, tail>>
    /\ UNCHANGED steps
    /\ UNCHANGED <<run, first_run>>
    /\ UNCHANGED <<args, board, words_dict, words_trunc_dict, to_explore_stack,
                   found_words_paths, cur_path, cur_letters, cur_word,
                   neighbor_cells>>

\* --board given and accepted: the rows, lowercased, as lists.
ConstructBoardFromInput ==
    /\ pc = "construct_board"
    /\ args.board # <<>>
    /\ ~RowsUnequal(args.board)
    /\ board' = [r \in 1..Len(args.board) |-> Lower(args.board[r])]
    /\ pc' = "construct_lookup"
    /\ UNCHANGED <<found_keys, tail>>
    /\ UNCHANGED steps
    /\ UNCHANGED <<run, first_run>>
    /\ UNCHANGED <<args, words_dict, words_trunc_dict, to_explore_stack,
                   found_words_paths, cur_path, cur_letters, cur_word,
                   neighbor_cells>>

\* No --board: size*size letters drawn at random (or from the dice), cut
\* into size rows of size letters.
ConstructBoardGenerated ==
    /\ pc = "construct_board"
    /\ args.board = <<>>
    /\ \E p \in Patterns : board' = GeneratedBoard(args.size, p)
    /\ pc' = "construct_lookup"
    /\ UNCHANGED <<found_keys, tail>>
    /\ UNCHANGED steps
    /\ UNCHANGED <<run, first_run>>
    /\ UNCHANGED <<args, words_dict, words_trunc_dict, to_explore_stack,
                   found_words_paths, cur_path, cur_letters, cur_word,
                   neighbor_cells>>

---------------------------------------------------------------------------
(* construct_lookup, the whole of it.                                      *)

ConstructLookup ==
    /\ pc = "construct_lookup"
    /\ words_dict' = words_of(args.wordlist)
    /\ words_trunc_dict' = truncs_of(args.wordlist, num_letters(args))
    /\ pc' = "solve_board"
    /\ UNCHANGED <<found_keys, tail>>
    /\ UNCHANGED steps
    /\ UNCHANGED <<run, first_run>>
    /\ UNCHANGED <<args, board, to_explore_stack, found_words_paths, cur_path,
                   cur_letters, cur_word, neighbor_cells>>

---------------------------------------------------------------------------
(* solve_board                                                             *)

\* A plausible slip: the cells are kept in a container whose order of
\* iteration is not the same in every call.
InitCells_unordered(n) ==
    LET cells == [k \in 1..(n * n) |-> <<(k - 1) \div n, (k - 1) % n>>]
    IN  IF run = 1 THEN cells
        ELSE [k \in 1..(n * n) |-> cells[n * n + 1 - k]]

\* list(itertools.product(range(n), range(n))): row-major.
InitCells(n) == [k \in 1..(n * n) |-> <<(k - 1) \div n, (k - 1) % n>>]

\* Lines 199-208: the state before the first iteration of the loop.
SolveInit ==
    /\ pc = "solve_board"
    /\ to_explore_stack' = <<InitCells(Len(board))>>
    /\ found_words_paths' = <<>>
    /\ cur_path' = <<NoneCell>>
    /\ cur_letters' = <<NoneLetter>>
    /\ pc' = "loop"
    /\ found_keys' = <<>>
    /\ UNCHANGED tail
    /\ steps' = <<>>
    /\ UNCHANGED <<run, first_run>>
    /\ UNCHANGED <<args, board, words_dict, words_trunc_dict, cur_word,
                   neighbor_cells>>

\* The loop condition fails: return found_words_paths.
Return ==
    /\ pc = "loop"
    /\ to_explore_stack = <<>>
    /\ pc' = "done"
    /\ UNCHANGED <<found_keys, tail>>
    /\ UNCHANGED steps
    /\ UNCHANGED <<run, first_run>>
    /\ UNCHANGED <<args, board, words_dict, words_trunc_dict, to_explore_stack,
                   found_words_paths, cur_path, cur_letters, cur_word,
                   neighbor_cells>>

\* A plausible slip: the exhausted level is left on the stack.
Backtrack_nopop ==
    /\ pc = "loop"
    /\ to_explore_stack # <<>>
    /\ Last(to_explore_stack) = <<>>
    /\ IF cur_path = <<>> \/ cur_letters = <<>>
       THEN /\ pc' = "crash"
            /\ UNCHANGED <<to_explore_stack, cur_path, cur_letters>>
       ELSE /\ cur_path' = Front(cur_path)
            /\ cur_letters' = Front(cur_letters)
            /\ UNCHANGED <<pc, to_explore_stack>>
    /\ UNCHANGED <<found_keys, tail>>
    /\ steps' = Append(steps, NoneCell)
    /\ UNCHANGED <<run, first_run>>
    /\ UNCHANGED <<args, board, words_dict, words_trunc_dict, found_words_paths,
                   cur_word, neighbor_cells>>

\* Lines 214-218: no options left at this depth.  list.pop() of an empty
\* list raises IndexError.
Backtrack ==
    /\ pc = "loop"
    /\ to_explore_stack # <<>>
    /\ Last(to_explore_stack) = <<>>
    /\ IF cur_path = <<>> \/ cur_letters = <<>>
       THEN /\ pc' = "crash"
            /\ to_explore_stack' = Front(to_explore_stack)
            /\ UNCHANGED <<cur_path, cur_letters>>
       ELSE /\ to_explore_stack' = Front(to_explore_stack)
            /\ cur_path' = Front(cur_path)
            /\ cur_letters' = Front(cur_letters)
            /\ UNCHANGED pc
    /\ UNCHANGED <<found_keys, tail>>
    /\ steps' = Append(steps, NoneCell)
    /\ UNCHANGED <<run, first_run>>
    /\ UNCHANGED <<args, board, words_dict, words_trunc_dict, found_words_paths,
                   cur_word, neighbor_cells>>

\* Lines 221-226, on the state before the iteration.
TopCell == Last(Last(to_explore_stack))

StackAfterPop ==
    [to_explore_stack EXCEPT ![Len(to_explore_stack)] = Front(Last(to_explore_stack))]

PathAfter == [cur_path EXCEPT ![Len(cur_path)] = TopCell]

LettersAfter == [cur_letters EXCEPT ![Len(cur_letters)] = get_letter(board, TopCell)]

\* A plausible slip: the candidate is formed before the letter of the
\* selected cell has been put in its slot, from the letters before it.
Candidate_short == Join(Front(LettersAfter))

Candidate == Join(LettersAfter)

\* A plausible slip: a word already tracked keeps its first path.
RecordFound_ifabsent(found, word, path) ==
    IF word \in DOMAIN found THEN found ELSE (word :> path) @@ found

\* The dict keeps its keys in the order of their first assignment.
RecordKey(keys, found, word) ==
    IF word \in DOMAIN found THEN keys ELSE Append(keys, word)

\* A plausible slip: a fresh dictionary is made for each word found.
RecordFound_reset(found, word, path) == (word :> path)

\* found_words_paths[cur_word] = list(cur_path)
RecordFound(found, word, path) == (word :> path) @@ found

\* get_letter raises IndexError: the cell is not on the board.
VisitFails ==
    /\ pc = "loop"
    /\ to_explore_stack # <<>>
    /\ Last(to_explore_stack) # <<>>
    /\ IndexError(board, TopCell)
    /\ to_explore_stack' = StackAfterPop
    /\ cur_path' = PathAfter
    /\ pc' = "crash"
    /\ UNCHANGED <<found_keys, tail>>
    /\ steps' = Append(steps, TopCell)
    /\ UNCHANGED <<run, first_run>>
    /\ UNCHANGED <<args, board, words_dict, words_trunc_dict, found_words_paths,
                   cur_letters, cur_word, neighbor_cells>>

\* A plausible slip: the continue is missing, and the search goes on from
\* a candidate that starts no word.
VisitPruned_nocontinue ==
    /\ pc = "loop"
    /\ to_explore_stack # <<>>
    /\ Last(to_explore_stack) # <<>>
    /\ ~IndexError(board, TopCell)
    /\ Candidate \notin words_trunc_dict
    /\ cur_word' = Candidate
    /\ found_words_paths' =
          IF Candidate \in words_dict
          THEN RecordFound(found_words_paths, Candidate, PathAfter)
          ELSE found_words_paths
    /\ LET next == get_valid_neighbors(args, board, PathAfter)
       IN  /\ neighbor_cells' = next
           /\ IF next # <<>>
              THEN /\ to_explore_stack' = Append(StackAfterPop, next)
                   /\ cur_path' = Append(PathAfter, NoneCell)
                   /\ cur_letters' = Append(LettersAfter, NoneLetter)
              ELSE /\ to_explore_stack' = StackAfterPop
                   /\ cur_path' = PathAfter
                   /\ cur_letters' = LettersAfter
    /\ found_keys' =
          IF Candidate \in words_dict
          THEN RecordKey(found_keys, found_words_paths, Candidate)
          ELSE found_keys
    /\ UNCHANGED tail
    /\ steps' = Append(steps, TopCell)
    /\ UNCHANGED <<run, first_run>>
    /\ UNCHANGED <<pc, args, board, words_dict, words_trunc_dict>>

\* Lines 227-228: the candidate is the start of no word.
VisitPruned ==
    /\ pc = "loop"
    /\ to_explore_stack # <<>>
    /\ Last(to_explore_stack) # <<>>
    /\ ~IndexError(board, TopCell)
    /\ Candidate \notin words_trunc_dict
    /\ to_explore_stack' = StackAfterPop
    /\ cur_path' = PathAfter
    /\ cur_letters' = LettersAfter
    /\ cur_word' = Candidate
    /\ UNCHANGED <<found_keys, tail>>
    /\ steps' = Append(steps, TopCell)
    /\ UNCHANGED <<run, first_run>>
    /\ UNCHANGED <<pc, args, board, words_dict, words_trunc_dict,
                   found_words_paths, neighbor_cells>>

\* Lines 229-237: the candidate starts a word; it is stored when it is a
\* word, and the next level is pushed when the cell has neighbors left.
VisitExpanded ==
    /\ pc = "loop"
    /\ to_explore_stack # <<>>
    /\ Last(to_explore_stack) # <<>>
    /\ ~IndexError(board, TopCell)
    /\ Candidate \in words_trunc_dict
    /\ cur_word' = Candidate
    /\ found_words_paths' =
          IF Candidate \in words_dict
          THEN RecordFound(found_words_paths, Candidate, PathAfter)
          ELSE found_words_paths
    /\ LET next == get_valid_neighbors(args, board, PathAfter)
       IN  /\ neighbor_cells' = next
           /\ IF next # <<>>
              THEN /\ to_explore_stack' = Append(StackAfterPop, next)
                   /\ cur_path' = Append(PathAfter, NoneCell)
                   /\ cur_letters' = Append(LettersAfter, NoneLetter)
              ELSE /\ to_explore_stack' = StackAfterPop
                   /\ cur_path' = PathAfter
                   /\ cur_letters' = LettersAfter
    /\ found_keys' =
          IF Candidate \in words_dict
          THEN RecordKey(found_keys, found_words_paths, Candidate)
          ELSE found_keys
    /\ UNCHANGED tail
    /\ steps' = Append(steps, TopCell)
    /\ UNCHANGED <<run, first_run>>
    /\ UNCHANGED <<pc, args, board, words_dict, words_trunc_dict>>

---------------------------------------------------------------------------
(* get_points and get_score                                                *)

\* A plausible slip: a word of seven letters is given four points.
get_points_seven(word) ==
    IF Len(word) <= 4 THEN 1
    ELSE IF Len(word) = 5 THEN 2
    ELSE IF Len(word) = 6 THEN 3
    ELSE IF Len(word) = 7 THEN 4
    ELSE IF Len(word) >= 8 THEN 11
    ELSE NoneLetter

\* The if/elif chain; a word no branch takes would be given None.
get_points(word) ==
    IF Len(word) <= 4 THEN 1
    ELSE IF Len(word) = 5 THEN 2
    ELSE IF Len(word) = 6 THEN 3
    ELSE IF Len(word) = 7 THEN 5
    ELSE IF Len(word) >= 8 THEN 11
    ELSE NoneLetter

\* A plausible slip: score = get_points(word) in place of score +=.
get_score_assign(words) ==
    IF words = <<>> THEN 0 ELSE get_points(Last(words))

\* score = 0; for word in words: score += get_points(word)
RECURSIVE get_score(_)
get_score(words) ==
    IF words = <<>> THEN 0
    ELSE get_score(Front(words)) + get_points(Last(words))

---------------------------------------------------------------------------
(* sort_words                                                              *)

\* ord() of the characters of the inputs.
ord(ch) ==
    CASE ch = "\n" -> 10
      [] ch = " " -> 32
      [] ch = "A" -> 65
      [] ch = "a" -> 97
      [] ch = "b" -> 98
      [] ch = "c" -> 99
      [] ch = "d" -> 100

\* u < v for two str.
RECURSIVE StrLess(_, _)
StrLess(u, v) ==
    IF v = <<>> THEN FALSE
    ELSE IF u = <<>> THEN TRUE
    ELSE IF ord(Head(u)) # ord(Head(v)) THEN ord(Head(u)) < ord(Head(v))
    ELSE StrLess(Tail(u), Tail(v))

\* The place of list[i] in sorted(list): after every smaller element, and
\* after the equal elements that stand before it (the sort is stable).
RankByStr(list, i) ==
    Cardinality({j \in 1..Len(list) :
                    \/ StrLess(list[j], list[i])
                    \/ (list[j] = list[i] /\ j <= i)})

\* sorted(list): stable, ascending.
sorted(list) ==
    [k \in 1..Len(list) |->
        list[CHOOSE i \in 1..Len(list) : RankByStr(list, i) = k]]

\* The place of list[i] in the list sorted by length.
RankByLen(list, i) ==
    Cardinality({j \in 1..Len(list) :
                    \/ Len(list[j]) < Len(list[i])
                    \/ (Len(list[j]) = Len(list[i]) /\ j <= i)})

\* sorted(list, key=lambda x: len(x)): stable, ascending in the length.
sorted_by_len(list) ==
    [k \in 1..Len(list) |->
        list[CHOOSE i \in 1..Len(list) : RankByLen(list, i) = k]]

\* The values of --sort.
Sorts == {"abc", "size", "none"}

\* list(found_words_paths) is the list of the keys in the dict's order.
sort_words(sort, keys) ==
    IF sort = "abc" THEN sorted(keys)
    ELSE IF sort = "size" THEN sorted_by_len(sorted(keys))
    ELSE keys

---------------------------------------------------------------------------
(* main, after solve_board                                                 *)

\* Line 246, with --sort drawn here.
SortWords ==
    /\ pc = "done"
    /\ \E sort \in Sorts : sorted_words' = sort_words(sort, found_keys)
    /\ pc' = "print_results"
    /\ UNCHANGED steps
    /\ UNCHANGED <<run, first_run>>
    /\ UNCHANGED <<args, board, words_dict, words_trunc_dict, to_explore_stack,
                   found_words_paths, cur_path, cur_letters, cur_word,
                   neighbor_cells, found_keys, score, word_points>>

\* The points of each word of the list, as print_found_words prints them.
PointsOf(words) == [i \in 1..Len(words) |-> get_points(words[i])]

\* Lines 248-256: print_score and print_found_words.
PrintResults ==
    /\ pc = "print_results"
    /\ score' = get_score(sorted_words)
    /\ word_points' = PointsOf(sorted_words)
    /\ pc' = "printed"
    /\ UNCHANGED steps
    /\ UNCHANGED <<run, first_run>>
    /\ UNCHANGED <<args, board, words_dict, words_trunc_dict, to_explore_stack,
                   found_words_paths, cur_path, cur_letters, cur_word,
                   neighbor_cells, found_keys, sorted_words>>

Next ==
    \/ ConstructBoardExit
    \/ ConstructBoardFromInput
    \/ ConstructBoardGenerated
    \/ ConstructLookup
    \/ SolveInit
    \/ Return
    \/ Backtrack
    \/ VisitFails
    \/ VisitPruned
    \/ VisitExpanded
    \/ SortWords
    \/ PrintResults

Spec == Init /\ [][Next]_vars

\* The program is one thread that runs to completion: it always takes its
\* next step.
FairSpec == Spec /\ WF_vars(Next)

---------------------------------------------------------------------------
(* solve_board called a second time with the arguments of the first call.  *)

SolveAgain ==
    /\ pc = "done"
    /\ run = 1
    /\ first_run' = [found |-> found_words_paths, keys |-> found_keys,
                     steps |-> steps]
    /\ run' = 2
    /\ pc' = "solve_board"
    /\ UNCHANGED <<args, board, words_dict, words_trunc_dict, to_explore_stack,
                   found_words_paths, cur_path, cur_letters, cur_word,
                   neighbor_cells, found_keys, steps, tail>>

RepeatNext ==
    \/ ConstructBoardExit
    \/ ConstructBoardFromInput
    \/ ConstructBoardGenerated
    \/ ConstructLookup
    \/ SolveInit
    \/ Return
    \/ Backtrack
    \/ VisitFails
    \/ VisitPruned
    \/ VisitExpanded
    \/ SolveAgain

RepeatSpec == Init /\ [][RepeatNext]_vars

---------------------------------------------------------------------------
(* get_points and get_score on their own: the argument is any list of at   *)
(* most MaxScoreWords words of at most MaxWordLen letters.                 *)

ScoreWords == { [i \in 1..n |-> "a"] : n \in 0..MaxWordLen }

ScoreInputs == UNION { [1..k -> ScoreWords] : k \in 0..MaxScoreWords }

ScoreInit ==
    /\ pc = "get_score"
    /\ sorted_words \in ScoreInputs
    /\ args = [size |-> 0, board |-> <<>>, neighbors |-> "all", wordlist |-> <<>>]
    /\ board = <<>>
    /\ words_dict = {}
    /\ words_trunc_dict = {}
    /\ to_explore_stack = <<>>
    /\ found_words_paths = <<>>
    /\ cur_path = <<>>
    /\ cur_letters = <<>>
    /\ cur_word = <<>>
    /\ neighbor_cells = <<>>
    /\ found_keys = <<>>
    /\ score = 0
    /\ word_points = <<>>
    /\ steps = <<>>
    /\ run = 1
    /\ first_run = <<>>

\* get_score(words), and get_points(word) for each word of the list.
GetScore ==
    /\ pc = "get_score"
    /\ score' = get_score(sorted_words)
    /\ word_points' = PointsOf(sorted_words)
    /\ pc' = "scored"
    /\ UNCHANGED steps
    /\ UNCHANGED <<run, first_run>>
    /\ UNCHANGED <<args, board, words_dict, words_trunc_dict, to_explore_stack,
                   found_words_paths, cur_path, cur_letters, cur_word,
                   neighbor_cells, found_keys, sorted_words>>

ScoreNext == GetScore

ScoreSpec == ScoreInit /\ [][ScoreNext]_vars

---------------------------------------------------------------------------
(* Vocabulary of the properties: the grid, its cells, adjacency and simple *)
(* paths, stated without the solver's own operators.                       *)

Size == Len(board)

IsSquare(b) == \A r \in 1..Len(b) : Len(b[r]) = Len(b)

Cells == (0..(Size - 1)) \X (0..(Size - 1))

LetterAt(c) == board[c[1] + 1][c[2] + 1]

WordOf(path) == [i \in 1..Len(path) |-> LetterAt(path[i])]

Abs(x) == IF x < 0 THEN -x ELSE x

Adjacent(mode, c, d) ==
    LET dr == Abs(c[1] - d[1])
        dc == Abs(c[2] - d[2])
    IN  IF mode = "all" THEN dr <= 1 /\ dc <= 1 /\ dr + dc >= 1
        ELSE dr + dc = 1

\* All simple paths of k >= 1 cells on the grid.
RECURSIVE SimplePaths(_)
SimplePaths(k) ==
    IF k = 1 THEN { <<c>> : c \in Cells }
    ELSE UNION { { Append(p, c) :
                     c \in { d \in Cells : /\ d \notin Range(p)
                                           /\ Adjacent(args.neighbors, Last(p), d) } } :
                 p \in SimplePaths(k - 1) }

\* What the brute-force enumeration of all simple paths finds.
BruteForce ==
    { w \in words_dict :
        Len(w) >= 1 /\ \E p \in SimplePaths(Len(w)) : WordOf(p) = w }

\* The live path: cur_path without the empty slot a push leaves at its end.
LivePath(path) ==
    IF path # <<>> /\ Last(path) = NoneCell THEN Front(path) ELSE path

\* The iteration about to run selects a cell and reads its letter.
IsVisit ==
    /\ pc = "loop"
    /\ to_explore_stack # <<>>
    /\ Last(to_explore_stack) # <<>>
    /\ ~IndexError(board, TopCell)

---------------------------------------------------------------------------
(* C1.  When solve_board returns on a square grid with the lexicon built   *)
(* for that grid (prefixes up to size*size letters), the keys of the       *)
(* result are exactly the lexicon words that some simple path of the grid  *)
(* spells: what the unpruned enumeration of all simple paths finds.        *)

C1_PruningSound ==
    (/\ pc = "done"
     /\ IsSquare(board)
     /\ num_letters(args) = Size * Size)
    => DOMAIN found_words_paths = BruteForce

C1_Witness ==
    /\ pc = "done"
    /\ IsSquare(board)
    /\ num_letters(args) = Size * Size
    /\ Size >= 2
    /\ Cardinality(DOMAIN found_words_paths) >= 2
    /\ \E w \in words_dict : Len(w) >= 1 /\ w \notin DOMAIN found_words_paths

(* C2.  In every state, each stored path spells its word: the letters of   *)
(* the grid at the path's cells, in order, are the word, also after the    *)
(* live path buffer has been changed by later iterations.                  *)

C2_WordPathConsistent ==
    \A w \in DOMAIN found_words_paths :
        LET p == found_words_paths[w]
        IN  /\ Len(p) = Len(w)
            /\ \A i \in 1..Len(p) : board[p[i][1] + 1][p[i][2] + 1] = w[i]

C2_Witness ==
    /\ pc = "loop"
    /\ \E w \in DOMAIN found_words_paths :
          /\ Len(found_words_paths[w]) >= 2
          /\ cur_path # <<>>
          /\ LivePath(cur_path) # <<>>
          /\ found_words_paths[w][1] # cur_path[1]

(* C3.  In every state, each stored path is a valid path: its cells are    *)
(* pairwise distinct, each lies in [0,size) x [0,size) and on the board,   *)
(* and consecutive cells are adjacent under the adjacency mode of the run. *)

C3_PathValid ==
    \A w \in DOMAIN found_words_paths :
        LET p == found_words_paths[w]
        IN  /\ \A i, j \in 1..Len(p) : i # j => p[i] # p[j]
            /\ \A i \in 1..Len(p) :
                  /\ p[i] \in Cells
                  /\ p[i][2] < Len(board[p[i][1] + 1])
            /\ \A i \in 1..(Len(p) - 1) : Adjacent(args.neighbors, p[i], p[i + 1])

C3_Witness ==
    /\ pc = "done"
    /\ args.neighbors = "no_diag"
    /\ \E w \in DOMAIN found_words_paths : Len(found_words_paths[w]) >= 3

(* C4, as claimed.  Once a word is a key of the result, the path stored    *)
(* for it never changes.                                                   *)

C5_Terminates ==
    (pc = "solve_board" /\ IsSquare(board))
        ~> (pc = "done" /\ to_explore_stack = <<>>)

C5_Witness ==
    /\ pc = "done"
    /\ to_explore_stack = <<>>
    /\ IsSquare(board)
    /\ Size >= 2
    /\ found_words_paths # <<>>

(* C6.  In every state, every key of the result has at least one and at    *)
(* most size*size letters, whatever the word list holds.                   *)

C6_WordLengthBounds ==
    \A w \in DOMAIN found_words_paths :
        /\ Len(w) >= 1
        /\ Len(w) <= Size * Size

\* The word list holds the empty string and a word longer than size*size,
\* and a word was found.
C6_Witness ==
    /\ pc = "done"
    /\ Size >= 1
    /\ <<>> \in words_dict
    /\ \E w \in words_dict : Len(w) > Size * Size
    /\ found_words_paths # <<>>

(* C7, as claimed.  On every board construct_board accepts, each cell the  *)
(* search looks up is on the board, and the lookup never fails.            *)

C7_LookupsInBounds ==
    /\ pc # "crash"
    /\ \A i \in 1..Len(cur_path) :
          cur_path[i] # NoneCell => ~IndexError(board, cur_path[i])

(* C8, as claimed.  Rows of unequal length end the run in construct_board, *)
(* before the lexicon is built or the search started, and every board      *)
(* accepted from --board is square.                                        *)

C8_AcceptedBoardSquare ==
    /\ (args.board # <<>> /\ RowsUnequal(args.board))
          => /\ pc \in {"construct_board", "exit"}
             /\ words_dict = {} /\ words_trunc_dict = {}
             /\ to_explore_stack = <<>>
    /\ (args.board # <<>> /\ pc \notin {"construct_board", "exit"})
          => IsSquare(board)

(* C9.  Each call of get_valid_neighbors returns exactly the cells         *)
(* cell+offset, offset in the mode's offset set, that lie in               *)
(* [0,size) x [0,size) and are not in the current path; none twice, in     *)
(* the order of the offset list.                                           *)

OffsetSet(mode) ==
    { o \in (-1..1) \X (-1..1) :
        IF mode = "all" THEN o # <<0, 0>> ELSE Abs(o[1]) + Abs(o[2]) = 1 }

OffsetIndex(o) == CHOOSE i \in 1..Len(OffsetsAll) : OffsetsAll[i] = o

NeighborsAsSpecified(result, path) ==
    LET cell == Last(path)
        expected == { c \in { <<cell[1] + o[1], cell[2] + o[2]>> :
                                 o \in OffsetSet(args.neighbors) } :
                        c \in Cells /\ c \notin Range(path) }
    IN  /\ Range(result) = expected
        /\ Len(result) = Cardinality(expected)
        /\ \A i, j \in 1..Len(result) :
              i < j => OffsetIndex(<<result[i][1] - cell[1], result[i][2] - cell[2]>>)
                         < OffsetIndex(<<result[j][1] - cell[1], result[j][2] - cell[2]>>)

C9_Neighbors ==
    [][(IsVisit /\ cur_word' \in words_trunc_dict)
          => NeighborsAsSpecified(neighbor_cells', LivePath(cur_path'))]_vars

C9_Witness ==
    /\ pc = "loop"
    /\ args.neighbors = "no_diag"
    /\ Len(cur_path) >= 3
    /\ Last(cur_path) = NoneCell
    /\ neighbor_cells # <<>>
    /\ Last(to_explore_stack) = neighbor_cells

(* C10, as claimed.  The prefix set is exactly the set of the prefixes of  *)
(* 1..min(len(w), maxPathLength) letters of the input words w, so every    *)
(* prefix is non-empty, and the word set is the set of input words.        *)

IsLetter(ch) == ch \notin Whitespace

\* The raw word strings: the lines of the file without their terminators.
InputWords ==
    { SelectSeq(args.wordlist[k], IsLetter) : k \in 1..Len(args.wordlist) }

LookupBuilt == pc \notin {"construct_board", "construct_lookup", "exit"}

C10_PrefixesExact ==
    LookupBuilt =>
        /\ words_trunc_dict =
              UNION { { SubSeq(w, 1, i) : i \in 1..Min(Len(w), num_letters(args)) } :
                      w \in InputWords }
        /\ \A t \in words_trunc_dict : Len(t) >= 1
        /\ words_dict = InputWords

(* C10, amended.  The prefix set is that set, and in addition the empty    *)
(* string when the empty string is an input word and maxPathLength >= 1;   *)
(* every prefix is a prefix of an input word, and the word set is the set  *)
(* of input words.                                                         *)

C10_PrefixesWithEmpty ==
    LookupBuilt =>
        /\ words_trunc_dict =
              UNION { { SubSeq(w, 1, i) : i \in 1..Min(Len(w), num_letters(args)) } :
                      w \in InputWords }
              \cup (IF <<>> \in InputWords /\ num_letters(args) >= 1
                    THEN {<<>>} ELSE {})
        /\ \A t \in words_trunc_dict :
              \E w \in words_dict : Len(t) <= Len(w) /\ SubSeq(w, 1, Len(t)) = t
        /\ words_dict = InputWords

C10_Witness ==
    /\ pc = "solve_board"
    /\ num_letters(args) >= 1
    /\ <<>> \in words_dict
    /\ <<>> \in words_trunc_dict
    /\ \E w \in words_dict : Len(w) > num_letters(args)

---------------------------------------------------------------------------
(* The scenario of the specification: the board ab/cd with the word list   *)
(* ab, ac, abc, abd, ba.                                                   *)

IsScenario == args \in ScenarioArgs

ab == <<"a", "b">>
ac == <<"a", "c">>
abc == <<"a", "b", "c">>
abd == <<"a", "b", "d">>
ba == <<"b", "a">>

(* C12, as claimed.  In the scenario with mode no_diag, the run returns    *)
(* ab, ac and ba and neither abc nor abd.                                  *)

C12_ScenarioNoDiag ==
    (IsScenario /\ args.neighbors = "no_diag" /\ pc = "done")
        => /\ {ab, ac, ba} \subseteq DOMAIN found_words_paths
           /\ abc \notin DOMAIN found_words_paths
           /\ abd \notin DOMAIN found_words_paths

(* C12, amended.  In the scenario with mode no_diag, the run returns ab,   *)
(* ac, abd and ba, each with its only path, and does not return abc: b at  *)
(* (0,1) and d at (1,1) share a column, only b and c touch diagonally.     *)

C12_ScenarioNoDiagAmended ==
    (IsScenario /\ args.neighbors = "no_diag" /\ pc = "done")
        => found_words_paths =
              (ab :> << <<0, 0>>, <<0, 1>> >>)
              @@ (ac :> << <<0, 0>>, <<1, 0>> >>)
              @@ (abd :> << <<0, 0>>, <<0, 1>>, <<1, 1>> >>)
              @@ (ba :> << <<0, 1>>, <<0, 0>> >>)

C12_Witness ==
    /\ IsScenario
    /\ args.neighbors = "no_diag"
    /\ pc = "done"
    /\ abc \in words_dict
    /\ abd \in DOMAIN found_words_paths

(* C15.  With an empty word list the word set and the prefix set are       *)
(* empty, the result stays empty on every board in both modes, and the     *)
(* frontier stack never holds more than its initial level.                 *)

C15_EmptyLexicon ==
    (args.wordlist = <<>>)
        => /\ words_dict = {}
           /\ words_trunc_dict = {}
           /\ found_words_paths = <<>>
           /\ Len(to_explore_stack) <= 1

C15_Witness ==
    /\ args.wordlist = <<>>
    /\ pc = "done"
    /\ Size = 2
    /\ IsSquare(board)
    /\ found_words_paths = <<>>

(* C17, as claimed.  The prefix bound of the lexicon is the cell count of  *)
(* the board that is solved, also for a board given with --board, so       *)
(* every lexicon word that can be traced on the board has all its          *)
(* non-empty prefixes in the prefix set.                                   *)

C17_PrefixBoundIsCellCount ==
    (LookupBuilt /\ IsSquare(board))
        => /\ num_letters(args) = Size * Size
           /\ \A w \in BruteForce :
                 \A i \in 1..Len(w) : SubSeq(w, 1, i) \in words_trunc_dict

(* C18.  An iteration whose candidate is in no prefix pushes no level and  *)
(* leaves the result as it is; and in every state, for every level d >= 1  *)
(* on the stack, the letters of the path positions 0..d-1 are in prefixes. *)

LevelsHavePrefixes ==
    \A d \in 1..(Len(to_explore_stack) - 1) :
        WordOf(SubSeq(cur_path, 1, d)) \in words_trunc_dict

PrunedStep ==
    (IsVisit /\ WordOf(LivePath(cur_path')) \notin words_trunc_dict)
        => /\ Len(to_explore_stack') = Len(to_explore_stack)
           /\ found_words_paths' = found_words_paths

C18_Pruning == [](LevelsHavePrefixes) /\ [][PrunedStep]_vars

\* A cell has just been pruned two levels down.
C18_Witness ==
    /\ pc = "loop"
    /\ Len(to_explore_stack) >= 3
    /\ Last(cur_path) # NoneCell
    /\ cur_word = WordOf(cur_path)
    /\ cur_word \notin words_trunc_dict

(* C19.  The result is empty when the loop is entered; no step of the run  *)
(* removes a key; and a backtracking step leaves the result unchanged.     *)

IsBacktrack ==
    /\ pc = "loop"
    /\ to_explore_stack # <<>>
    /\ Last(to_explore_stack) = <<>>

C19_Monotone ==
    [][/\ (pc = "solve_board") => (found_words_paths' = <<>>)
       /\ (pc = "loop") =>
             (DOMAIN found_words_paths \subseteq DOMAIN found_words_paths')
       /\ IsBacktrack => (found_words_paths' = found_words_paths)]_vars

\* Two words are stored and the search has backtracked to the first level.
C19_Witness ==
    /\ pc = "loop"
    /\ Cardinality(DOMAIN found_words_paths) >= 2
    /\ Len(to_explore_stack) = 1
    /\ Last(to_explore_stack) # <<>>

(* C20.  At the start of every iteration the path, the letters and the     *)
(* frontier stack have the same length and every slot but the last holds   *)
(* a cell or letter; a push extends the three by one, a backtrack shrinks  *)
(* them by one, a dead end leaves them as long as they were; at the        *)
(* return the three are empty.                                             *)

Aligned ==
    /\ (pc = "loop") =>
          /\ Len(cur_path) = Len(to_explore_stack)
          /\ Len(cur_letters) = Len(to_explore_stack)
          /\ \A i \in 1..(Len(cur_path) - 1) :
                cur_path[i] # NoneCell /\ cur_letters[i] # NoneLetter
    /\ (pc = "done") =>
          (to_explore_stack = <<>> /\ cur_path = <<>> /\ cur_letters = <<>>)

LengthsChangeBy(k) ==
    /\ Len(to_explore_stack') = Len(to_explore_stack) + k
    /\ Len(cur_path') = Len(cur_path) + k
    /\ Len(cur_letters') = Len(cur_letters) + k

AlignedStep ==
    /\ IsBacktrack => LengthsChangeBy(-1)
    /\ (IsVisit /\ cur_word' \in words_trunc_dict /\ neighbor_cells' # <<>>)
          => /\ LengthsChangeBy(1)
             /\ Last(to_explore_stack') = neighbor_cells'
             /\ Last(cur_path') = NoneCell
             /\ Last(cur_letters') = NoneLetter
    /\ (IsVisit /\ cur_word' \in words_trunc_dict /\ neighbor_cells' = <<>>)
          => LengthsChangeBy(0)

C20_Alignment == [](Aligned) /\ [][AlignedStep]_vars

\* A dead end: the cell's letter starts a word and no neighbor is left.
C20_Witness ==
    /\ pc = "loop"
    /\ to_explore_stack # <<>>
    /\ Last(cur_path) # NoneCell
    /\ cur_word = WordOf(cur_path)
    /\ cur_word \in words_trunc_dict
    /\ neighbor_cells = <<>>

---------------------------------------------------------------------------
(* The results reported at the end of main(), and the scoring functions.   *)

Reported == pc = "printed"

\* The points of a word of n letters, as a table.
PointsTable(n) ==
    CASE n <= 4 -> 1
      [] n = 5 -> 2
      [] n = 6 -> 3
      [] n = 7 -> 5
      [] n >= 8 -> 11

\* The number of words of the list that have k letters or more.
AtLeast(words, k) == Cardinality({i \in 1..Len(words) : Len(words[i]) >= k})

(* C11.  In the scenario with mode all, the run returns exactly ab, ac,    *)
(* abc, abd and ba with the paths of the specification, and reports five   *)
(* words, one point each, five points in all.                              *)

C11_ScenarioAll ==
    (IsScenario /\ args.neighbors = "all")
        => /\ (pc \in {"done", "print_results", "printed"}) =>
                 found_words_paths =
                    (ab :> << <<0, 0>>, <<0, 1>> >>)
                    @@ (ac :> << <<0, 0>>, <<1, 0>> >>)
                    @@ (abc :> << <<0, 0>>, <<0, 1>>, <<1, 0>> >>)
                    @@ (abd :> << <<0, 0>>, <<0, 1>>, <<1, 1>> >>)
                    @@ (ba :> << <<0, 1>>, <<0, 0>> >>)
           /\ Reported =>
                 /\ Range(sorted_words) = {ab, ac, abc, abd, ba}
                 /\ Len(sorted_words) = 5
                 /\ score = 5

C11_Witness ==
    /\ IsScenario
    /\ args.neighbors = "all"
    /\ Reported
    /\ abc \in DOMAIN found_words_paths
    /\ score > 0

(* C13.  get_points gives 1 to a word of one to four letters, 2 to a word  *)
(* of five, 3 to a word of six, 5 to a word of seven and 11 to a word of   *)
(* eight or more, and so an integer to every word.                         *)

C13_Points ==
    (pc \in {"scored", "printed"})
        => /\ Len(word_points) = Len(sorted_words)
           /\ \A i \in 1..Len(sorted_words) :
                 /\ word_points[i] \in Int
                 /\ word_points[i] = PointsTable(Len(sorted_words[i]))

\* Words of seven letters and of more than eight have been given points.
C13_Witness ==
    /\ pc = "scored"
    /\ \E i, j \in 1..Len(sorted_words) :
          /\ Len(sorted_words[i]) = 7
          /\ Len(sorted_words[j]) > 8
          /\ word_points[i] = 5
          /\ word_points[j] = 11

(* C14.  get_score of a list of words is the sum of get_points over the    *)
(* list, each occurrence counted, and get_score of the empty list is 0.    *)

\* The sum, counted by thresholds: one point for each word, and the steps
\* of the table for each word that reaches five, six, seven, eight letters.
SumOfPoints(words) ==
    Len(words) + AtLeast(words, 5) + AtLeast(words, 6)
        + 2 * AtLeast(words, 7) + 6 * AtLeast(words, 8)

C14_ScoreAdditive ==
    (pc \in {"scored", "printed"})
        => /\ score = SumOfPoints(sorted_words)
           /\ (sorted_words = <<>>) => (score = 0)

\* The same word of eight letters, given twice, has been counted twice.
C14_Witness ==
    /\ pc = "scored"
    /\ Len(sorted_words) = 2
    /\ Len(sorted_words[1]) = 8
    /\ Len(sorted_words[2]) = 8
    /\ score = 22

---------------------------------------------------------------------------
(* C16.  A second call of solve_board with the same board, lookups and     *)
(* mode takes the steps of the first call in the same order, the same      *)
(* cell removed from the frontier at each, and returns the same mapping    *)
(* with the same paths.                                                    *)

IsPrefix(s, t) == Len(s) <= Len(t) /\ SubSeq(t, 1, Len(s)) = s

=============================================================================
